---- MODULE Spec2Model ----
(***************************************************************************)
(* A model of mrpc-go: the error taxonomy (ErrorCode, Error,               *)
(* ResponseError, ErrorResponse), the client call path with its deadline   *)
(* negotiation, the server's registry (Register), its dispatch (Execute,   *)
(* ServeMRPC) and the interceptor chain (serverInterceptorChain).          *)
(*                                                                         *)
(* Strings are TLA+ strings, byte slices are strings ("" is the nil/empty  *)
(* slice).  uint64 and int64 are modelled Bits wide: only the relation     *)
(* between the unsigned range and the signed range of the same width       *)
(* matters to the code (uint64 <-> time.Duration conversions).             *)
(***************************************************************************)
EXTENDS Integers, Sequences, FiniteSets, TLC

VARIABLES
    options,        \* the options given to NewServer, in the order given
    interceptors,   \* Server.intercept: the interceptors given to NewServer
    services,       \* Server.services: set of registered service names
    methods,        \* Server.methods: composite key -> method{svc, handler}
    lastRegister,   \* the Register call of the latest step, if it was one
    calls,          \* the Execute / ServeMRPC calls, one record per call slot
    now,            \* the wall clock read by time.Now / time.Until
    client,         \* the state of one Client.Call
    errs            \* the error value under study (error taxonomy)

vars == <<options, interceptors, services, methods, lastRegister, calls, now, client, errs>>

-----------------------------------------------------------------------------
(* Bounds of the model *)

\* width in bits of the modelled uint64 / int64
Bits == 4
\* largest number of interceptors given to NewServer
MaxInterceptors == 3
\* largest number of MethodSpec entries in the enumerated ServiceSpecs
MaxMethods == 1
\* largest number of times one interceptor invokes its next handler
MaxNextCalls == 2
\* the clock runs from 0 to MaxTime
MaxTime == 2

RECURSIVE Pow2(_)
Pow2(n) == IF n = 0 THEN 1 ELSE 2 * Pow2(n - 1)

MaxUint64 == Pow2(Bits) - 1
MaxInt64 == Pow2(Bits - 1) - 1
MinInt64 == -Pow2(Bits - 1)

\* uint64(d) for a time.Duration d: two's complement reinterpretation
ToUint64(d) == d % Pow2(Bits)
\* time.Duration(u) for a uint64 u: two's complement reinterpretation
ToDuration(u) == IF u > MaxInt64 THEN u - Pow2(Bits) ELSE u
\* Time.Sub saturates at the limits of time.Duration
TimeSub(t, u) ==
    LET d == t - u
    IN  IF d > MaxInt64 THEN MaxInt64 ELSE IF d < MinInt64 THEN MinInt64 ELSE d

-----------------------------------------------------------------------------
(* Envelope model: ErrCode, Response *)

OK == "OK"
Unknown == "Unknown"
NotFound == "NotFound"
Timeout == "Timeout"
\* a code defined by an integrator
Custom == "Custom"
ErrCodes == {OK, Unknown, NotFound, Timeout, Custom}

\* the zero value of ErrCode
ZeroErrCode == OK

Response(code, text, body) == [ErrorCode |-> code, ErrorText |-> text, Body |-> body]
\* Response{}
ZeroResponse == Response(ZeroErrCode, "", "")

-----------------------------------------------------------------------------
(* Error taxonomy *)

\* error values: nil, a plain error (errors.New), context.DeadlineExceeded,
\* a codeError built by Error, and an error of another type that reports its
\* own code through ErrorCode()
Err(kind, code, text) == [kind |-> kind, code |-> code, text |-> text]
NilErr == Err("nil", OK, "")
PlainErr(text) == Err("plain", OK, text)
DeadlineExceeded == Err("deadline", OK, "context deadline exceeded")
codeError(code, text) == Err("codeError", code, text)
OwnCodeErr(code, text) == Err("ownCode", code, text)

\* err.Error()
ErrorText(err) == err.text

\* the mutant of ErrorCode: the code an error reports is not asked for
ErrorCodeNoCapability(err) ==
    CASE err = NilErr -> OK
      [] err = DeadlineExceeded -> Timeout
      [] OTHER -> Unknown

ErrorCode(err) ==
    CASE err = NilErr -> OK
      [] err = DeadlineExceeded -> Timeout
      [] err.kind \in {"codeError", "ownCode"} -> err.code
      [] OTHER -> Unknown

Error(code, text) == IF code = OK THEN NilErr ELSE codeError(code, text)

ResponseError(resp) == Error(resp.ErrorCode, resp.ErrorText)

ErrorResponse(err) == Response(ErrorCode(err), ErrorText(err), "")

\* ErrorResponsef(code, format, args...): text is the formatted message
ErrorResponsef(code, text) == Response(code, text, "")

-----------------------------------------------------------------------------
(* Inputs *)

\* the nil interface value of ServiceSpec.Service
Nil == "nil"
\* ServiceSpec.Name values ("" is the missing name)
Names == {"", "a", "b"}
\* service handles
Handles == {"s1", "s2"}
\* MethodSpec.ID values
MethodIDs == {-1, 12}
\* the handlers an integrator registers
Handlers == {"h1", "h2"}
\* request bodies
Bodies == {"", "req"}
\* Headers.Timeout values: unset, small, and beyond the range of time.Duration
Timeouts == {0, 1, MaxInt64 + 1}

\* a context is its deadline, if it has one
Ctx(has, at) == [has |-> has, at |-> at]
\* context.Background()
Background == Ctx(FALSE, 0)
\* the contexts handed to Execute and ServeMRPC
Contexts == {Background, Ctx(TRUE, 2)}

MethodSpecs == [ID : MethodIDs, Handler : Handlers]
MethodLists == UNION {[1..n -> MethodSpecs] : n \in 0..MaxMethods}
ServiceSpecs == [Name : Names, Service : Handles \cup {Nil}, Methods : MethodLists]

Requests == [Service : Names \ {""}, Method : MethodIDs, Timeout : Timeouts, Body : Bodies]

\* what a handler or an interceptor returns: ([]byte, error)
Result(body, err) == [body |-> body, err |-> err]
\* the errors handlers return
HandlerErrs ==
    {PlainErr("handler error"), DeadlineExceeded, codeError(NotFound, "no such user"),
     OwnCodeErr(Custom, "custom failure"), OwnCodeErr(OK, "not really ok")}
HandlerResults ==
    {Result("handler result", NilErr), Result("", NilErr)}
        \cup {Result("", e) : e \in HandlerErrs}
        \cup {Result("partial", PlainErr("handler error"))}
\* what an interceptor returns when it does not hand back the result of next
OwnResults == {Result("intercepted", NilErr), Result("", codeError(Custom, "denied"))}

-----------------------------------------------------------------------------
(* Server: registry *)

Digit == <<"0", "1", "2", "3", "4", "5", "6", "7", "8", "9">>

RECURSIVE FormatUint(_)
FormatUint(n) ==
    IF n < 10 THEN Digit[n + 1] ELSE FormatUint(n \div 10) \o Digit[(n % 10) + 1]

\* strconv.FormatInt(n, 10)
FormatInt(n) == IF n < 0 THEN "-" \o FormatUint(-n) ELSE FormatUint(n)

\* the mutant of methodKey: the name and the ID are not separated
methodKeyNoSeparator(svc, method) == svc \o FormatInt(method)

methodKey(svc, method) == svc \o ":" \o FormatInt(method)

\* method{svc, handler}
Method(svc, handler) == [svc |-> svc, handler |-> handler]

\* the loop of Register: s.methods[methodKey(svc.Name, m.ID)] = method{...}
RECURSIVE InsertMethods(_, _, _)
InsertMethods(ms, spec, i) ==
    IF i > Len(spec.Methods) THEN ms
    ELSE LET m == spec.Methods[i]
             k == methodKey(spec.Name, m.ID)
             e == Method(spec.Service, m.Handler)
         IN  InsertMethods([x \in DOMAIN ms \cup {k} |-> IF x = k THEN e ELSE ms[x]],
                           spec, i + 1)

\* the mutant of RegisterPanic: a registered name is not rejected
RegisterPanicNoDuplicate(spec) ==
    IF spec.Name = "" THEN "missing service name"
    ELSE IF spec.Service = Nil THEN "missing service"
    ELSE ""

\* the panic value of Register(spec), "" when it does not panic
RegisterPanic(spec) ==
    IF spec.Name = "" THEN "missing service name"
    ELSE IF spec.Service = Nil THEN "missing service"
    ELSE IF spec.Name \in services THEN "service " \o spec.Name \o " already registered"
    ELSE ""

\* no Register call was the latest step
NoRegister == [called |-> FALSE, name |-> "", service |-> Nil, panic |-> ""]

\* Register(spec) was called: the name and the handle given, and the panic value
\* recovered ("" when it returned)
Registered(spec, panic) ==
    [called |-> TRUE, name |-> spec.Name, service |-> spec.Service, panic |-> panic]

-----------------------------------------------------------------------------
(* Server: construction *)

\* the option lists given to NewServer: n interceptors, numbered, in
\* ascending or in descending order of their numbers
Ascending(n) == [k \in 1..n |-> k]
Descending(n) == [k \in 1..n |-> n + 1 - k]
OptionLists == UNION {{Ascending(n), Descending(n)} : n \in 0..MaxInterceptors}

\* the mutant of WithServerInterceptor: the interceptor is put in front
WithServerInterceptorInFront(o, interceptor) == <<interceptor>> \o o

\* WithServerInterceptor(interceptor) applied to the options o
WithServerInterceptor(o, interceptor) == Append(o, interceptor)

\* serverOptions.apply: the options are applied in the order given
RECURSIVE apply(_, _)
apply(o, opts) ==
    IF opts = <<>> THEN o ELSE apply(WithServerInterceptor(o, Head(opts)), Tail(opts))

\* NewServer(o...): the interceptors the chain is built from
NewServer(opts) == apply(<<>>, opts)

-----------------------------------------------------------------------------
(* Server: one call of Execute or ServeMRPC *)

CallInfo(svc, key, body) == [Service |-> svc, Method |-> key, Body |-> body]

\* an activation on the call stack of s.intercept: interceptor number i of the
\* chain (calls: how often it has invoked its next handler), or the handler;
\* ctx: the context it received, passed: the context it gave to next last
IcptFrame(i, ctx) == [kind |-> "icpt", i |-> i, calls |-> 0, ctx |-> ctx, passed |-> ctx]
HandlerFrame(ctx) == [kind |-> "handler", i |-> -1, calls |-> 0, ctx |-> ctx, passed |-> ctx]

\* a context of an interceptor's own, not the one it received
OwnContext == Ctx(TRUE, MaxTime + 1)

\* what the interceptors and the handlers observe, in order; call: the
\* CallInfo an interceptor received
Entered(who, call) ==
    [ev |-> "enter", who |-> who, h |-> "", svc |-> "", body |-> "", call |-> call]
Handled(h, svc, body) == [ev |-> "handler", who |-> 0, h |-> h, svc |-> svc, body |-> body]

NoRequest == [Service |-> "", Method |-> 0, Timeout |-> 0, Body |-> ""]

IdleCall ==
    [pc |-> "idle",             \* idle, chain, returned, encode, done, panicked
     via |-> "Execute",         \* the entry point: Execute or ServeMRPC
     req |-> NoRequest,
     ctxIn |-> Background,      \* the context given by the caller
     found |-> FALSE,           \* the registry has the method
     call |-> CallInfo("", "", ""),
     handler |-> "",            \* method.handler
     derived |-> FALSE,         \* context.WithTimeout was called
     ctx |-> Background,        \* the context given to s.intercept
     t0 |-> 0,                  \* the time of dispatch
     timer |-> FALSE,           \* the deadline timer of the derived context is armed
     cancelled |-> FALSE,       \* cancel() was invoked
     idx |-> 0,                 \* the chain's index
     once |-> TRUE,             \* every interceptor that has returned had
                                \* invoked its next handler exactly once
     retried |-> FALSE,         \* an interceptor has invoked its next handler
                                \* more than once
     short |-> -1,              \* the first index of the chain whose interceptor
                                \* returned without invoking its next handler
     stack |-> <<>>,
     trace |-> <<>>,
     late |-> FALSE,            \* the deadline of ctx had passed when the
                                \* handler returned
     ret |-> Result("", NilErr),\* the latest value returned on the stack
     resp |-> ZeroResponse,
     executed |-> FALSE,        \* ServeMRPC: Execute was called
     encodes |-> 0,             \* ServeMRPC: number of responses encoded
     serveErr |-> NilErr]       \* ServeMRPC: the error returned

\* context.WithDeadline(parent, d): the deadline of the child
WithDeadline(parent, d) == IF parent.has /\ parent.at < d THEN parent ELSE Ctx(TRUE, d)

\* context.WithTimeout(parent, timeout)
WithTimeout(parent, timeout) == WithDeadline(parent, now + timeout)

\* context.WithDeadline arms a timer unless the parent expires first or the
\* deadline has passed already
TimerArmed(parent, d) == ~(parent.has /\ parent.at < d) /\ TimeSub(d, now) > 0

\* the interceptor chain is entered: serverInterceptorChain(interceptors)(ctx, call, h)
ChainEnter(r) ==
    IF Len(interceptors) = 0
    THEN [r EXCEPT !.stack = <<HandlerFrame(r.ctx)>>,
                   !.trace = <<Handled(r.handler, r.call.Service, r.call.Body)>>]
    ELSE [r EXCEPT !.idx = 0,
                   !.stack = <<IcptFrame(0, r.ctx)>>,
                   !.trace = <<Entered(interceptors[1], r.call)>>]

\* the mutant of ChainNext: the handler is reached with every index from the
\* number of interceptors on
ChainNextAtLeast(r, ctx, svc, body) ==
    IF Len(interceptors) = 1
    THEN [r EXCEPT !.stack = Append(@, HandlerFrame(ctx)),
                   !.trace = Append(@, Handled(r.handler, svc, body))]
    ELSE LET idx == r.idx + 1
         IN  IF idx >= Len(interceptors)
             THEN [r EXCEPT !.idx = idx,
                            !.stack = Append(@, HandlerFrame(ctx)),
                            !.trace = Append(@, Handled(r.handler, r.call.Service, r.call.Body))]
             ELSE [r EXCEPT !.idx = idx,
                            !.stack = Append(@, IcptFrame(idx, ctx)),
                            !.trace = Append(@, Entered(interceptors[idx + 1], r.call))]

\* the mutant of ChainNext: the calls in the chain share one index
ChainNextSharedIndex(r, ctx, svc, body) ==
    LET running == {calls[c].idx : c \in {d \in DOMAIN calls : calls[d].pc = "chain"}}
        idx == 1 + CHOOSE m \in running : \A x \in running : m >= x
    IN  IF Len(interceptors) = 1
        THEN [r EXCEPT !.stack = Append(@, HandlerFrame(ctx)),
                       !.trace = Append(@, Handled(r.handler, svc, body))]
        ELSE IF idx = Len(interceptors)
        THEN [r EXCEPT !.idx = idx,
                       !.stack = Append(@, HandlerFrame(ctx)),
                       !.trace = Append(@, Handled(r.handler, r.call.Service, r.call.Body))]
        ELSE IF idx < Len(interceptors)
        THEN [r EXCEPT !.idx = idx,
                       !.stack = Append(@, IcptFrame(idx, ctx)),
                       !.trace = Append(@, Entered(interceptors[idx + 1], r.call))]
        ELSE [r EXCEPT !.idx = idx, !.stack = <<>>, !.pc = "panicked"]

\* the mutant of ChainNext: the handler is given the arguments of next
ChainNextPassesArguments(r, ctx, svc, body) ==
    IF Len(interceptors) = 1
    THEN [r EXCEPT !.stack = Append(@, HandlerFrame(ctx)),
                   !.trace = Append(@, Handled(r.handler, svc, body))]
    ELSE LET idx == r.idx + 1
         IN  IF idx = Len(interceptors)
             THEN [r EXCEPT !.idx = idx,
                            !.stack = Append(@, HandlerFrame(ctx)),
                            !.trace = Append(@, Handled(r.handler, svc, body))]
             ELSE IF idx < Len(interceptors)
             THEN [r EXCEPT !.idx = idx,
                            !.stack = Append(@, IcptFrame(idx, ctx)),
                            !.trace = Append(@, Entered(interceptors[idx + 1], r.call))]
             ELSE [r EXCEPT !.idx = idx, !.stack = <<>>, !.pc = "panicked"]

\* the next handler given to the interceptors is invoked with (ctx, svc, body)
ChainNext(r, ctx, svc, body) ==
    IF Len(interceptors) = 1
    THEN \* next is the registered handler itself
         [r EXCEPT !.stack = Append(@, HandlerFrame(ctx)),
                   !.trace = Append(@, Handled(r.handler, svc, body))]
    ELSE LET idx == r.idx + 1
         IN  IF idx = Len(interceptors)
             THEN [r EXCEPT !.idx = idx,
                            !.stack = Append(@, HandlerFrame(ctx)),
                            !.trace = Append(@, Handled(r.handler, r.call.Service, r.call.Body))]
             ELSE IF idx < Len(interceptors)
             THEN [r EXCEPT !.idx = idx,
                            !.stack = Append(@, IcptFrame(idx, ctx)),
                            !.trace = Append(@, Entered(interceptors[idx + 1], r.call))]
             ELSE \* interceptors[idx]: index out of range
                  [r EXCEPT !.idx = idx, !.stack = <<>>, !.pc = "panicked"]

\* the mutant of MethodNotFound: the deadline is set up before the lookup
MethodNotFoundAfterDeadline(r, key) ==
    [r EXCEPT !.pc = IF r.via = "Execute" THEN "done" ELSE "encode",
              !.derived = r.req.Timeout # 0,
              !.cancelled = r.req.Timeout # 0,
              !.ctx = IF r.req.Timeout # 0
                      THEN WithTimeout(r.ctxIn, ToDuration(r.req.Timeout))
                      ELSE r.ctxIn,
              !.resp = ErrorResponsef(NotFound, "method " \o key \o " not found")]

\* Execute: the registry has no entry for key
MethodNotFound(r, key) ==
    [r EXCEPT !.pc = IF r.via = "Execute" THEN "done" ELSE "encode",
              !.resp = ErrorResponsef(NotFound, "method " \o key \o " not found")]

\* Execute(ctx, req) up to the call of s.intercept
ExecuteBegin(via, ctx, req) ==
    LET key == methodKey(req.Service, req.Method)
        has == key \in DOMAIN methods
        r0 == [IdleCall EXCEPT !.via = via, !.req = req, !.ctxIn = ctx, !.t0 = now,
                               !.executed = TRUE]
    IN  IF ~has
        THEN MethodNotFound(r0, key)
        ELSE LET m == methods[key]
                 timeout == ToDuration(req.Timeout)
                 derive == req.Timeout # 0
             IN  ChainEnter(
                    [r0 EXCEPT !.pc = "chain",
                               !.found = TRUE,
                               !.call = CallInfo(m.svc, key, req.Body),
                               !.handler = m.handler,
                               !.derived = derive,
                               !.ctx = IF derive THEN WithTimeout(ctx, timeout) ELSE ctx,
                               !.timer = derive /\ TimerArmed(ctx, now + timeout)])

\* the mutant of ExecuteEnd: the body is kept in an error response
ExecuteEndKeepsBody(r) ==
    [r EXCEPT !.pc = IF r.via = "Execute" THEN "done" ELSE "encode",
              !.cancelled = TRUE,
              !.timer = FALSE,
              !.resp = IF r.ret.err # NilErr
                       THEN [ErrorResponse(r.ret.err) EXCEPT !.Body = r.ret.body]
                       ELSE Response(ZeroErrCode, "", r.ret.body)]

\* the mutant of ExecuteEnd: a chain that returns after the deadline is answered
\* with Timeout
ExecuteEndChecksDeadline(r) ==
    [r EXCEPT !.pc = IF r.via = "Execute" THEN "done" ELSE "encode",
              !.cancelled = TRUE,
              !.timer = FALSE,
              !.resp = IF r.ctx.has /\ r.ctx.at <= now THEN ErrorResponse(DeadlineExceeded)
                       ELSE IF r.ret.err # NilErr THEN ErrorResponse(r.ret.err)
                       ELSE Response(ZeroErrCode, "", r.ret.body)]

\* Execute(ctx, req) from the return of s.intercept
ExecuteEnd(r) ==
    [r EXCEPT !.pc = IF r.via = "Execute" THEN "done" ELSE "encode",
              !.cancelled = TRUE,
              !.timer = FALSE,
              !.resp = IF r.ret.err # NilErr
                       THEN ErrorResponse(r.ret.err)
                       ELSE Response(ZeroErrCode, "", r.ret.body)]

\* a frame returns res to its caller
Return(r, res) ==
    LET st == SubSeq(r.stack, 1, Len(r.stack) - 1)
    IN  [r EXCEPT !.stack = st,
                  !.ret = res,
                  !.pc = IF st = <<>> THEN "returned" ELSE "chain"]

Top(r) == r.stack[Len(r.stack)]
Free(r) == r.pc \in {"idle", "done", "panicked"}

-----------------------------------------------------------------------------
(* Actions of the server *)

Register(spec) ==
    /\ IF RegisterPanic(spec) # ""
       THEN /\ lastRegister' = Registered(spec, RegisterPanic(spec))
            /\ UNCHANGED <<services, methods>>
       ELSE /\ methods' = InsertMethods(methods, spec, 1)
            /\ services' = services \cup {spec.Name}
            /\ lastRegister' = Registered(spec, "")
    /\ UNCHANGED <<options, interceptors, calls, now, client, errs>>

Execute(c, ctx, req) ==
    /\ Free(calls[c])
    /\ calls' = [calls EXCEPT ![c] = ExecuteBegin("Execute", ctx, req)]
    /\ lastRegister' = NoRegister
    /\ UNCHANGED <<options, interceptors, services, methods, now, client, errs>>

\* the interceptor on top of the stack invokes its next handler; alter: it
\* passes a context, a service and a body of its own instead of the ones it
\* received
InterceptorCallsNext(c, alter) ==
    /\ calls[c].pc = "chain"
    /\ Top(calls[c]).kind = "icpt"
    /\ Top(calls[c]).calls < MaxNextCalls
    /\ LET r == calls[c]
           n == Len(r.stack)
           ctx == IF alter THEN OwnContext ELSE Top(r).ctx
           counted == [r EXCEPT !.stack[n].calls = @ + 1,
                                !.stack[n].passed = ctx,
                                !.retried = @ \/ Top(r).calls >= 1]
       IN  calls' = [calls EXCEPT ![c] =
                IF alter THEN ChainNext(counted, ctx, "other service", "other body")
                ELSE ChainNext(counted, ctx, r.call.Service, r.call.Body)]
    /\ lastRegister' = NoRegister
    /\ UNCHANGED <<options, interceptors, services, methods, now, client, errs>>

\* the interceptor on top of the stack returns: the result of its latest
\* call of next, or a result of its own
InterceptorReturns(c, res) ==
    /\ calls[c].pc = "chain"
    /\ Top(calls[c]).kind = "icpt"
    /\ \/ Top(calls[c]).calls > 0 /\ res = calls[c].ret
       \/ res \in OwnResults
    /\ calls' = [calls EXCEPT ![c] =
            Return([@ EXCEPT !.once = @ /\ Top(calls[c]).calls = 1,
                             !.short = IF @ = -1 /\ Top(calls[c]).calls = 0
                                       THEN Top(calls[c]).i ELSE @], res)]
    /\ lastRegister' = NoRegister
    /\ UNCHANGED <<options, interceptors, services, methods, now, client, errs>>

HandlerReturns(c, res) ==
    /\ calls[c].pc = "chain"
    /\ Top(calls[c]).kind = "handler"
    /\ calls' = [calls EXCEPT ![c] =
            Return([@ EXCEPT !.late = calls[c].ctx.has /\ calls[c].ctx.at <= now], res)]
    /\ lastRegister' = NoRegister
    /\ UNCHANGED <<options, interceptors, services, methods, now, client, errs>>

\* the handler panics; nothing on the stack recovers, Execute is unwound
HandlerPanics(c) ==
    /\ calls[c].pc = "chain"
    /\ Top(calls[c]).kind = "handler"
    /\ calls' = [calls EXCEPT ![c].pc = "panicked", ![c].stack = <<>>]
    /\ lastRegister' = NoRegister
    /\ UNCHANGED <<options, interceptors, services, methods, now, client, errs>>

\* s.intercept has returned: cancel(), then the response
ExecuteReturns(c) ==
    /\ calls[c].pc = "returned"
    /\ calls' = [calls EXCEPT ![c] = ExecuteEnd(@)]
    /\ lastRegister' = NoRegister
    /\ UNCHANGED <<options, interceptors, services, methods, now, client, errs>>

\* the errors of the codec
DecodeErr == PlainErr("unexpected EOF")
EncodeErr == PlainErr("short write")

\* the mutant of DecodeFailed: the decode error is returned, nothing is encoded
DecodeFailedReturnsError(ctx, err) ==
    [IdleCall EXCEPT !.via = "ServeMRPC", !.ctxIn = ctx, !.t0 = now, !.pc = "done",
                     !.serveErr = err]

\* ServeMRPC: msgpack.Decode failed with err
DecodeFailed(ctx, err) ==
    [IdleCall EXCEPT !.via = "ServeMRPC", !.ctxIn = ctx, !.t0 = now, !.pc = "encode",
                     !.resp = ErrorResponsef(Unknown, "decode request: " \o ErrorText(err))]

\* ServeMRPC(ctx, r, w) up to the call of s.intercept; decoded: msgpack.Decode
\* returned nil and filled in req
ServeMRPC(c, ctx, decoded, req) ==
    /\ Free(calls[c])
    /\ calls' = [calls EXCEPT ![c] =
            IF decoded THEN ExecuteBegin("ServeMRPC", ctx, req)
            ELSE DecodeFailed(ctx, DecodeErr)]
    /\ lastRegister' = NoRegister
    /\ UNCHANGED <<options, interceptors, services, methods, now, client, errs>>

\* ServeMRPC: return msgpack.Encode(w, &resp)
ServeEncodes(c, ok) ==
    /\ calls[c].pc = "encode"
    /\ calls' = [calls EXCEPT ![c].pc = "done",
                              ![c].encodes = @ + 1,
                              ![c].serveErr = IF ok THEN NilErr ELSE EncodeErr]
    /\ lastRegister' = NoRegister
    /\ UNCHANGED <<options, interceptors, services, methods, now, client, errs>>

\* time passes; the deadline timers that are due fire
Tick ==
    /\ now < MaxTime
    /\ now' = now + 1
    /\ calls' = [c \in DOMAIN calls |->
                    [calls[c] EXCEPT !.timer = @ /\ calls[c].ctx.at > now + 1]]
    /\ lastRegister' = NoRegister
    /\ UNCHANGED <<options, interceptors, services, methods, client, errs>>

-----------------------------------------------------------------------------
(* Client *)

\* the errors of the client's channel
WriteErr == PlainErr("broken pipe")
ReadErr == PlainErr("unexpected EOF")

IdleClient ==
    [pc |-> "idle",             \* idle, read, done
     ctx |-> Background,        \* the context given to Call
     header |-> 0,              \* req.Headers.Timeout as given to Call
     t |-> 0,                   \* the time of the call
     io |-> <<>>,               \* the operations on the channel, in order
     written |-> TRUE,          \* msgpack.Encode returned nil
     decodeErr |-> NilErr,      \* the error msgpack.Decode returned
     sent |-> 0,                \* Headers.Timeout of the request written
     resp |-> ZeroResponse,     \* the Response returned
     err |-> NilErr]            \* the error returned

\* the mutant of Deadline: a remaining time of zero or less is written too
DeadlineAlways(ctx, header) ==
    IF ctx.has
    THEN LET timeout == TimeSub(ctx.at, now)
         IN  IF header = 0 \/ ToUint64(timeout) < header
             THEN ToUint64(timeout)
             ELSE header
    ELSE header

\* Call: the deadline negotiation; the value of req.Headers.Timeout after it
Deadline(ctx, header) ==
    IF ctx.has
    THEN LET timeout == TimeSub(ctx.at, now)     \* time.Until(deadline)
         IN  IF timeout > 0 /\ (header = 0 \/ ToUint64(timeout) < header)
             THEN ToUint64(timeout)
             ELSE header
    ELSE header

\* the mutant of Call: the response is read after a failed write too
CallIgnoresWriteError(ctx, header, written) ==
    /\ client.pc \in {"idle", "done"}
    /\ client' = [IdleClient EXCEPT
                    !.pc = "read",
                    !.ctx = ctx,
                    !.header = header,
                    !.t = now,
                    !.io = <<"write">>,
                    !.written = written,
                    !.sent = Deadline(ctx, header),
                    !.err = IF written THEN NilErr ELSE WriteErr]
    /\ UNCHANGED <<options, interceptors, services, methods, lastRegister, calls, now, errs>>

\* Call(ctx, req) up to the return of msgpack.Encode; written: Encode returned nil
Call(ctx, header, written) ==
    /\ client.pc \in {"idle", "done"}
    /\ client' = [IdleClient EXCEPT
                    !.pc = IF written THEN "read" ELSE "done",
                    !.ctx = ctx,
                    !.header = header,
                    !.t = now,
                    !.io = <<"write">>,
                    !.written = written,
                    !.sent = Deadline(ctx, header),
                    !.err = IF written THEN NilErr ELSE WriteErr]
    /\ UNCHANGED <<options, interceptors, services, methods, lastRegister, calls, now, errs>>

\* Call from msgpack.Decode on: resp and the error of Decode are returned
CallReads(resp, err) ==
    /\ client.pc = "read"
    /\ client' = [client EXCEPT !.pc = "done",
                               !.io = Append(@, "read"),
                               !.decodeErr = err,
                               !.resp = resp,
                               !.err = err]
    /\ UNCHANGED <<options, interceptors, services, methods, lastRegister, calls, now, errs>>

-----------------------------------------------------------------------------
(* Error taxonomy: the values it is applied to *)

Texts == {"", "boom", "context deadline exceeded"}

\* the non-nil error values
ErrValues ==
    {PlainErr(t) : t \in Texts} \cup {DeadlineExceeded}
        \cup {codeError(c, t) : c \in ErrCodes \ {OK}, t \in Texts}
        \cup {OwnCodeErr(c, t) : c \in ErrCodes, t \in Texts}

IdleErrs ==
    [stage |-> "idle",          \* idle, err, made, resp, back
     code |-> OK,               \* the arguments of Error
     text |-> "",
     err |-> NilErr,            \* the error under study
     resp |-> ZeroResponse,     \* ErrorResponse(err)
     back |-> NilErr]           \* ResponseError(ErrorResponse(err))

\* an error value err arrives from a handler or a collaborator
Observe(err) ==
    /\ errs' = [IdleErrs EXCEPT !.stage = "err", !.err = err]
    /\ UNCHANGED <<options, interceptors, services, methods, lastRegister, calls, now, client>>

\* Error(code, text) is called
MakeError(code, text) ==
    /\ errs' = [IdleErrs EXCEPT !.stage = "made", !.code = code, !.text = text,
                                !.err = Error(code, text)]
    /\ UNCHANGED <<options, interceptors, services, methods, lastRegister, calls, now, client>>

\* ErrorResponse(err) is called; it is only called with a non-nil error
ToResponse ==
    /\ errs.stage \in {"err", "made"}
    /\ errs.err # NilErr
    /\ errs' = [errs EXCEPT !.stage = "resp", !.resp = ErrorResponse(errs.err)]
    /\ UNCHANGED <<options, interceptors, services, methods, lastRegister, calls, now, client>>

\* ResponseError(resp) is called on the response
FromResponse ==
    /\ errs.stage = "resp"
    /\ errs' = [errs EXCEPT !.stage = "back", !.back = ResponseError(errs.resp)]
    /\ UNCHANGED <<options, interceptors, services, methods, lastRegister, calls, now, client>>

-----------------------------------------------------------------------------
(* The server *)

\* the services of a typical server: two services, one of them with two
\* methods, sharing a method ID and a handler
StartupSpecs ==
    {[Name |-> "a", Service |-> "s1",
      Methods |-> <<[ID |-> -1, Handler |-> "h1"], [ID |-> 12, Handler |-> "h2"]>>],
     [Name |-> "b", Service |-> "s2", Methods |-> <<[ID |-> 12, Handler |-> "h1"]>>]}

\* the requests with a body and a timeout in the range of time.Duration
BodyRequests == {req \in Requests : req.Body = "req" /\ req.Timeout <= MaxInt64}

Init ==
    /\ options \in OptionLists
    /\ interceptors = NewServer(options)
    /\ services = {}
    /\ methods = <<>>
    /\ lastRegister = NoRegister
    /\ calls = [c \in {1} |-> IdleCall]
    /\ now = 0
    /\ client = IdleClient
    /\ errs = IdleErrs

Next ==
    \/ \E spec \in StartupSpecs : Register(spec)
    \/ \E c \in DOMAIN calls, req \in BodyRequests : Execute(c, Background, req)
    \/ \E c \in DOMAIN calls, alter \in BOOLEAN : InterceptorCallsNext(c, alter)
    \/ \E c \in DOMAIN calls : \E res \in OwnResults \cup {calls[c].ret} :
            InterceptorReturns(c, res)
    \/ \E c \in DOMAIN calls, res \in HandlerResults : HandlerReturns(c, res)
    \/ \E c \in DOMAIN calls : HandlerPanics(c)
    \/ \E c \in DOMAIN calls : ExecuteReturns(c)
    \/ \E c \in DOMAIN calls, decoded \in BOOLEAN, req \in BodyRequests :
            ServeMRPC(c, Background, decoded, req)
    \/ \E c \in DOMAIN calls, ok \in BOOLEAN : ServeEncodes(c, ok)

Spec == Init /\ [][Next]_vars

-----------------------------------------------------------------------------
(* The registry: every ServiceSpec, a server without interceptors *)

\* the requests of the registry's specification
KeyRequests == {req \in Requests : req.Body = "req" /\ req.Timeout = 0}
\* the results of the handlers in the registry's specification
KeyResults == {Result("handler result", NilErr), Result("", PlainErr("handler error"))}

RegInit ==
    /\ options = <<>>
    /\ interceptors = NewServer(options)
    /\ services = {}
    /\ methods = <<>>
    /\ lastRegister = NoRegister
    /\ calls = [c \in {1} |-> IdleCall]
    /\ now = 0
    /\ client = IdleClient
    /\ errs = IdleErrs

\* the service specifications of the registry's specification
RegistrySpecs == {spec \in ServiceSpecs : spec.Service # "s2"}

RegNext ==
    \/ \E spec \in RegistrySpecs : Register(spec)
    \/ \E c \in DOMAIN calls, req \in KeyRequests : Execute(c, Background, req)
    \/ \E c \in DOMAIN calls, res \in KeyResults : HandlerReturns(c, res)
    \/ \E c \in DOMAIN calls : ExecuteReturns(c)

RegSpec == RegInit /\ [][RegNext]_vars

-----------------------------------------------------------------------------
(* Deadlines: every timeout and context, a running clock, one service *)

\* the requests of the deadline specification
TimedRequests ==
    {req \in Requests : req.Body = "req" /\ req.Service = "a" /\ req.Method = 12}
\* the option lists of the deadline specification
TimedOptionLists == {opts \in OptionLists : Len(opts) <= 1}

TimeInit ==
    /\ options \in TimedOptionLists
    /\ interceptors = NewServer(options)
    /\ services = {}
    /\ methods = <<>>
    /\ lastRegister = NoRegister
    /\ calls = [c \in {1} |-> IdleCall]
    /\ now = 0
    /\ client = IdleClient
    /\ errs = IdleErrs

TimeNext ==
    \/ \E spec \in StartupSpecs : Register(spec)
    \/ \E c \in DOMAIN calls, ctx \in Contexts, req \in TimedRequests : Execute(c, ctx, req)
    \/ \E c \in DOMAIN calls : InterceptorCallsNext(c, FALSE)
    \/ \E c \in DOMAIN calls : InterceptorReturns(c, calls[c].ret)
    \/ \E c \in DOMAIN calls, res \in KeyResults : HandlerReturns(c, res)
    \/ \E c \in DOMAIN calls : HandlerPanics(c)
    \/ \E c \in DOMAIN calls : ExecuteReturns(c)
    \/ Tick

TimeSpec == TimeInit /\ [][TimeNext]_vars

-----------------------------------------------------------------------------
(* The client *)

\* Headers.Timeout values given to Call
Headers == {0, 1, 2, MaxInt64, MaxInt64 + 1, MaxUint64}
\* the contexts given to Call: no deadline, deadlines in the past, now, soon
\* and far in the future
ClientContexts ==
    {Background} \cup {Ctx(TRUE, at) : at \in {MinInt64, 0, 1, 2, 3, MaxInt64}}
\* the responses the channel delivers
Responses ==
    {Response(OK, "", "response body"), Response(NotFound, "method x:3 not found", ""),
     ZeroResponse}

ClientInit ==
    /\ options = <<>>
    /\ interceptors = NewServer(options)
    /\ services = {}
    /\ methods = <<>>
    /\ lastRegister = NoRegister
    /\ calls = [c \in {1} |-> IdleCall]
    /\ now = 0
    /\ client = IdleClient
    /\ errs = IdleErrs

ClientNext ==
    \/ \E ctx \in ClientContexts, header \in Headers, written \in BOOLEAN :
            Call(ctx, header, written)
    \/ \E resp \in Responses : CallReads(resp, NilErr)
    \/ CallReads(ZeroResponse, ReadErr)
    \/ Tick

ClientSpec == ClientInit /\ [][ClientNext]_vars

-----------------------------------------------------------------------------
(* The error taxonomy *)

ErrInit ==
    /\ options = <<>>
    /\ interceptors = NewServer(options)
    /\ services = {}
    /\ methods = <<>>
    /\ lastRegister = NoRegister
    /\ calls = [c \in {1} |-> IdleCall]
    /\ now = 0
    /\ client = IdleClient
    /\ errs = IdleErrs

ErrNext ==
    \/ \E err \in ErrValues : Observe(err)
    \/ \E code \in ErrCodes, text \in Texts : MakeError(code, text)
    \/ ToResponse
    \/ FromResponse

ErrSpec == ErrInit /\ [][ErrNext]_vars

-----------------------------------------------------------------------------
(* The composite keys: service names with ':' and digits, negative IDs *)

\* one service per name, every handler registered once
KeySpecs ==
    {[Name |-> "a", Service |-> "s1",
      Methods |-> <<[ID |-> 12, Handler |-> "h1"], [ID |-> -1, Handler |-> "h2"]>>],
     [Name |-> "a1", Service |-> "s2",
      Methods |-> <<[ID |-> 2, Handler |-> "h3"], [ID |-> -1, Handler |-> "h4"]>>],
     [Name |-> "a:1", Service |-> "s3",
      Methods |-> <<[ID |-> 2, Handler |-> "h5"], [ID |-> 1, Handler |-> "h6"]>>],
     [Name |-> "a:", Service |-> "s4",
      Methods |-> <<[ID |-> 12, Handler |-> "h7"], [ID |-> -12, Handler |-> "h8"]>>],
     [Name |-> "a:-", Service |-> "s5",
      Methods |-> <<[ID |-> 1, Handler |-> "h9"], [ID |-> 12, Handler |-> "h10"]>>]}

\* the (service name, method ID) pairs of requests
KeyPairs ==
    {<<name, id>> : name \in {spec.Name : spec \in KeySpecs} \cup {"b"},
                    id \in {-12, -1, 1, 2, 12}}

\* a request for each pair
PairRequests ==
    {[Service |-> p[1], Method |-> p[2], Timeout |-> 0, Body |-> "req"] : p \in KeyPairs}

KeyInit ==
    /\ options = <<>>
    /\ interceptors = NewServer(options)
    /\ services = {}
    /\ methods = <<>>
    /\ lastRegister = NoRegister
    /\ calls = [c \in {1} |-> IdleCall]
    /\ now = 0
    /\ client = IdleClient
    /\ errs = IdleErrs

KeyNext ==
    \/ \E spec \in KeySpecs : Register(spec)
    \/ \E c \in DOMAIN calls, req \in PairRequests : Execute(c, Background, req)
    \/ \E c \in DOMAIN calls : HandlerReturns(c, Result("handler result", NilErr))
    \/ \E c \in DOMAIN calls : ExecuteReturns(c)

KeySpec == KeyInit /\ [][KeyNext]_vars

-----------------------------------------------------------------------------
(* Concurrent calls: registration is finished, two interceptors, three calls *)

\* the dispatches the transport runs at the same time
Callers == {1, 2, 3}

\* the registry after Register was called with each of the startup services
RECURSIVE RegisterAll(_, _)
RegisterAll(ms, specs) ==
    IF specs = {} THEN ms
    ELSE LET spec == CHOOSE x \in specs : TRUE
         IN  RegisterAll(InsertMethods(ms, spec, 1), specs \ {spec})

\* the requests of the concurrent calls: the two methods of service a
ConcRequests == {req \in KeyRequests : req.Service = "a"}

\* what the handler h returns
ResultOf(h) == Result("result of " \o h, NilErr)

ConcInit ==
    /\ options = Ascending(2)
    /\ interceptors = NewServer(options)
    /\ services = {spec.Name : spec \in StartupSpecs}
    /\ methods = RegisterAll(<<>>, StartupSpecs)
    /\ lastRegister = NoRegister
    /\ calls = [c \in Callers |-> IdleCall]
    /\ now = 0
    /\ client = IdleClient
    /\ errs = IdleErrs

ConcNext ==
    \/ \E c \in DOMAIN calls, req \in ConcRequests : Execute(c, Background, req)
    \/ \E c \in DOMAIN calls : InterceptorCallsNext(c, FALSE)
    \/ \E c \in DOMAIN calls : InterceptorReturns(c, calls[c].ret)
    \/ \E c \in DOMAIN calls : HandlerReturns(c, ResultOf(calls[c].handler))
    \/ \E c \in DOMAIN calls : ExecuteReturns(c)

ConcSpec == ConcInit /\ [][ConcNext]_vars

-----------------------------------------------------------------------------
(* Properties *)

\* the chain of r has returned to Execute
ChainReturned(r) == r.found /\ r.pc \in {"returned", "encode", "done"}
\* Execute has produced the response of r
Responded(r) == r.executed /\ r.pc \in {"encode", "done"}
\* who was entered, without the arguments
Shape(e) == <<e.ev, e.who, e.h>>
\* the interceptors in the order given to NewServer, then the handler
ExpectedTrace(r) ==
    [k \in 1..(Len(options) + 1) |->
        IF k <= Len(options) THEN Shape(Entered(options[k], r.call))
        ELSE Shape(Handled(r.handler, "", ""))]

\* C1: when every interceptor invokes its next handler exactly once, a call
\* that has come back from the chain has entered each of the N interceptors
\* once, in the order they were given to NewServer, and then, after all of
\* them, the registered handler once.
C1_ChainOrder ==
    \A c \in DOMAIN calls :
        LET r == calls[c]
        IN  (ChainReturned(r) /\ r.once) =>
                /\ Len(r.trace) = Len(options) + 1
                /\ \A k \in 1..Len(r.trace) : Shape(r.trace[k]) = ExpectedTrace(r)[k]

C1_Witness ==
    \E c \in DOMAIN calls :
        /\ ChainReturned(calls[c]) /\ calls[c].once /\ calls[c].pc = "done"
        /\ options = Descending(MaxInterceptors)

\* C2: the response of a call on a registered method is {OK, "", body} when
\* the chain returned (body, nil), and {ErrorCode(err), err.Error(), empty}
\* when it returned a non-nil error err.
C2_Response ==
    \A c \in DOMAIN calls :
        LET r == calls[c]
        IN  (Responded(r) /\ r.found) =>
                IF r.ret.err = NilErr
                THEN r.resp = Response(OK, "", r.ret.body)
                ELSE r.resp = Response(ErrorCode(r.ret.err), ErrorText(r.ret.err), "")

C2_Witness ==
    \E c \in DOMAIN calls :
        /\ Responded(calls[c]) /\ calls[c].found /\ calls[c].pc = "done"
        /\ calls[c].ret.err # NilErr /\ calls[c].ret.body # ""
        /\ Len(interceptors) > 0

\* C3: a call whose (Service, Method) has no registry entry is answered with
\* NotFound and "method <service>:<method> not found"; no interceptor and no
\* handler was invoked for it and no context was derived, whatever its timeout.
C3_NotFound ==
    \A c \in DOMAIN calls :
        LET r == calls[c]
        IN  (r.executed /\ methodKey(r.req.Service, r.req.Method) \notin DOMAIN methods) =>
                /\ r.pc \in {"encode", "done"}
                /\ r.resp = Response(NotFound,
                        "method " \o r.req.Service \o ":" \o FormatInt(r.req.Method)
                            \o " not found", "")
                /\ r.trace = <<>> /\ r.stack = <<>>
                /\ ~r.derived /\ ~r.timer /\ ~r.cancelled /\ r.ctx = Background

C3_Witness ==
    \E c \in DOMAIN calls :
        /\ calls[c].executed /\ calls[c].pc = "done" /\ calls[c].via = "Execute"
        /\ methodKey(calls[c].req.Service, calls[c].req.Method) \notin DOMAIN methods
        /\ calls[c].req.Timeout # 0
        /\ services # {} /\ Len(interceptors) > 0

\* C4: the response of Execute has ErrorCode OK if and only if the method was
\* found and the chain returned a nil error.
C4_OkIffSucceeded ==
    \A c \in DOMAIN calls :
        LET r == calls[c]
        IN  Responded(r) => (r.resp.ErrorCode = OK <=> (r.found /\ r.ret.err = NilErr))

\* C5: a Register call whose Name is empty, whose Service is nil or whose Name
\* is registered already panics and leaves the service names and the method
\* registry as they were.
C5_RegisterValidation ==
    [][(lastRegister'.called
            /\ (lastRegister'.name = "" \/ lastRegister'.service = Nil
                    \/ lastRegister'.name \in services)) =>
                /\ lastRegister'.panic # ""
                /\ services' = services
                /\ methods' = methods]_vars

C5_Witness ==
    /\ lastRegister.called
    /\ lastRegister.panic = "service a already registered"
    /\ DOMAIN methods = {"a:-1"}
    /\ methods["a:-1"] = Method("s1", "h2")

\* C6: the timeout Call sends, from the header timeout H and the remaining time
\* R of the context: R when H = 0 and R > 0, min(H, R) when H > 0 and R > 0,
\* and H (0 when unset) when there is no deadline or R <= 0.
C6_SentTimeout ==
    client.pc # "idle" =>
        LET H == client.header
            R == client.ctx.at - client.t
        IN  client.sent =
                IF client.ctx.has /\ R > 0
                THEN IF H = 0 THEN R ELSE IF H < R THEN H ELSE R
                ELSE H

C6_Witness ==
    /\ client.pc = "done" /\ client.err = NilErr
    /\ client.ctx.has /\ client.t > 0
    /\ client.ctx.at - client.t > 0
    /\ client.header > client.ctx.at - client.t
    /\ client.sent = client.ctx.at - client.t

C8_CancelOnEveryPath ==
    \A c \in DOMAIN calls :
        LET r == calls[c]
        IN  (r.derived /\ r.pc \in {"encode", "done", "panicked"}) =>
                (r.cancelled /\ ~r.timer)

\* C9: the chain receives the incoming context when Headers.Timeout is 0, and
\* otherwise a context whose deadline is dispatch time + Timeout, or the
\* deadline of the incoming context when that is earlier.
C9_Deadline ==
    \A c \in DOMAIN calls :
        LET r == calls[c]
            d == r.t0 + r.req.Timeout
        IN  (r.found /\ r.pc # "idle") =>
                IF r.req.Timeout = 0 THEN r.ctx = r.ctxIn
                ELSE /\ r.ctx.has
                     /\ r.ctx.at = IF r.ctxIn.has /\ r.ctxIn.at < d THEN r.ctxIn.at ELSE d

\* C10: for a non-nil error err, ErrorResponse(err).ErrorCode = ErrorCode(err),
\* and ResponseError(ErrorResponse(err)) is an error with the code
\* ErrorCode(err) and the message err.Error().
C10_RoundTrip ==
    errs.stage = "back" =>
        /\ errs.resp.ErrorCode = ErrorCode(errs.err)
        /\ errs.back # NilErr
        /\ ErrorCode(errs.back) = ErrorCode(errs.err)
        /\ ErrorText(errs.back) = ErrorText(errs.err)

\* C11: Error(code, text) is nil exactly when code is OK, whatever the text;
\* for any other code it is an error whose ErrorCode is code and whose message
\* is text. ErrorCode maps nil to OK, context.DeadlineExceeded to Timeout, an
\* error that reports a code to that code and every other error to Unknown.
C11_ErrorAndCode ==
    /\ errs.stage = "made" =>
            /\ errs.err = NilErr <=> errs.code = OK
            /\ errs.code # OK =>
                    /\ ErrorCode(errs.err) = errs.code
                    /\ ErrorText(errs.err) = errs.text
    /\ errs.stage \in {"made", "err"} =>
            ErrorCode(errs.err) =
                IF errs.err.kind = "nil" THEN OK
                ELSE IF errs.err.kind = "deadline" THEN Timeout
                ELSE IF errs.err.kind = "plain" THEN Unknown
                ELSE errs.err.code

C11_Witness ==
    /\ errs.stage = "made" /\ errs.code = Custom /\ errs.text = "boom"
    /\ errs.err # NilErr /\ ErrorCode(errs.err) = Custom

\* C12: a Call writes the request before it reads anything; when the write
\* fails it returns the write error and Response{} and reads nothing; after a
\* successful write it decodes one response, once, and returns the error of
\* that decode as it is.
C12_WriteThenRead ==
    client.pc # "idle" =>
        /\ client.io[1] = "write"
        /\ \A k \in 2..Len(client.io) : client.io[k] = "read"
        /\ ~client.written =>
                /\ client.pc = "done" /\ client.io = <<"write">>
                /\ client.err = WriteErr /\ client.resp = ZeroResponse
        /\ client.written =>
                /\ client.io = IF client.pc = "done" THEN <<"write", "read">> ELSE <<"write">>
                /\ client.pc = "done" => client.err = client.decodeErr

C12_Witness ==
    /\ client.pc = "done" /\ client.written
    /\ client.io = <<"write", "read">>
    /\ client.decodeErr = ReadErr /\ client.err = ReadErr

\* C13: no step removes a registry entry or changes the handle or the handler
\* it holds, whether the step is an Execute, a Register that returns or a
\* Register that panics; and a step that is not a Register leaves the whole
\* registry and the set of service names as they were.
C13_RegistryFrozen ==
    [][/\ \A k \in DOMAIN methods : k \in DOMAIN methods' /\ methods'[k] = methods[k]
       /\ ~lastRegister'.called => (methods' = methods /\ services' = services)]_vars

C13_Witness ==
    /\ services = {"a", "b"}
    /\ lastRegister.called /\ lastRegister.panic # ""
    /\ \E c \in DOMAIN calls : calls[c].pc = "done" /\ calls[c].found

\* the methods registered under the service name S with the method ID M
RegisteredAs(S, M) ==
    UNION {{Method(spec.Service, spec.Methods[i].Handler) :
                i \in {j \in 1..Len(spec.Methods) : spec.Methods[j].ID = M}} :
           spec \in {x \in KeySpecs : x.Name = S /\ x.Name \in services}}

\* C14: a request for (S, M) that resolves, resolves to the handle and the
\* handler registered under the service name S with the method ID M and to no
\* other; every registry key is the key of one registered (name, ID) pair
\* only, also for names with ':' or digits and for negative IDs.
C14_OneHandler ==
    /\ \A c \in DOMAIN calls :
            LET r == calls[c]
            IN  (r.executed /\ r.found) =>
                    /\ RegisteredAs(r.req.Service, r.req.Method)
                            = {Method(r.call.Service, r.handler)}
                    /\ r.call.Method = methodKey(r.req.Service, r.req.Method)
    /\ \A k \in DOMAIN methods :
            Cardinality({p \in KeyPairs :
                RegisteredAs(p[1], p[2]) # {} /\ methodKey(p[1], p[2]) = k}) = 1

C14_Witness ==
    /\ services = {spec.Name : spec \in KeySpecs}
    /\ \E c \in DOMAIN calls :
            /\ calls[c].pc = "done" /\ calls[c].found
            /\ calls[c].req.Service = "a:1" /\ calls[c].req.Method = 2
            /\ calls[c].handler = "h5"

\* C15: while the chain of a call runs, Execute produces no response for it,
\* also when the deadline of its context passes meanwhile; and when the handler
\* returns (body, nil) after the deadline has passed, the response is OK with
\* that body.
C15_Advisory ==
    [][\A c \in DOMAIN calls :
            LET r == calls[c]
                r2 == calls'[c]
            IN  /\ (r.pc = "chain" /\ r.ctx.has /\ r.ctx.at <= now') =>
                        /\ r2.pc \in {"chain", "returned", "panicked"}
                        /\ r2.resp = ZeroResponse
                /\ (Responded(r2) /\ r2.found /\ r2.late /\ r2.ret.err = NilErr) =>
                        r2.resp = Response(OK, "", r2.ret.body)]_vars

C15_Witness ==
    \E c \in DOMAIN calls :
        /\ calls[c].pc = "done" /\ calls[c].found /\ calls[c].late
        /\ calls[c].ctxIn = Background /\ calls[c].req.Timeout = 1
        /\ calls[c].ret = Result("handler result", NilErr)
        /\ calls[c].resp = Response(OK, "", "handler result")

\* C16: for every non-zero Headers.Timeout of the unsigned 64-bit range and an
\* incoming context without a deadline, the context given to the chain has the
\* deadline dispatch time + Timeout, which is after the dispatch time.
C16_FullRange ==
    \A c \in DOMAIN calls :
        LET r == calls[c]
        IN  (r.found /\ r.pc # "idle" /\ r.req.Timeout # 0 /\ ~r.ctxIn.has) =>
                /\ r.ctx.has
                /\ r.ctx.at = r.t0 + r.req.Timeout
                /\ r.ctx.at > r.t0

\* the response Execute builds from the value the chain returned
FromChain(r) ==
    IF r.ret.err = NilErr THEN Response(OK, "", r.ret.body)
    ELSE Response(ErrorCode(r.ret.err), ErrorText(r.ret.err), "")

\* C17: when the interceptor at index i has returned without invoking its next
\* handler, the call has entered no interceptor of an index above i and has not
\* invoked the handler, and its response is built from the value that came
\* back through the interceptors before i.
C17_ShortCircuit ==
    \A c \in DOMAIN calls :
        LET r == calls[c]
        IN  r.short >= 0 =>
                /\ \A k \in 1..Len(r.trace) :
                        /\ r.trace[k].ev = "enter"
                        /\ \E j \in 0..r.short : r.trace[k].who = interceptors[j + 1]
                /\ Responded(r) => r.resp = FromChain(r)

\* how often the handler was invoked
HandlerRuns(r) == Cardinality({k \in 1..Len(r.trace) : r.trace[k].ev = "handler"})

\* C18: in a chain of two or more interceptors the handler of a call is
\* invoked at most once, whatever the number of times the interceptors invoke
\* next: the index only grows and the handler runs only with the index equal
\* to the number of interceptors; and while no interceptor has invoked next
\* twice, every interceptor was selected with an index within 0..N-1.
C18_HandlerAtMostOnce ==
    [][\A c \in DOMAIN calls :
            LET r == calls[c]
                r2 == calls'[c]
                N == Len(interceptors)
            IN  N >= 2 =>
                    /\ HandlerRuns(r2) <= 1
                    /\ r.pc = "chain" => r2.idx >= r.idx
                    /\ (r2.pc = "chain" /\ Top(r2).kind = "handler") => r2.idx = N
                    /\ ~r2.retried =>
                            /\ r2.idx <= N
                            /\ \A k \in 1..Len(r2.stack) :
                                    r2.stack[k].kind = "icpt" => r2.stack[k].i \in 0..(N - 1)]_vars

C18_Witness ==
    \E c \in DOMAIN calls :
        /\ Len(interceptors) >= 2 /\ calls[c].retried
        /\ HandlerRuns(calls[c]) = 1
        /\ calls[c].pc = "panicked" /\ calls[c].idx = Len(interceptors) + 1

C20_Isolation ==
    [][\A c \in DOMAIN calls :
            LET r == calls[c]
                r2 == calls'[c]
                own == methods[methodKey(r2.req.Service, r2.req.Method)].handler
            IN  /\ r2 # r => \A d \in DOMAIN calls \ {c} : calls'[d] = calls[d]
                /\ (ChainReturned(r2) /\ r2.once) =>
                        /\ Len(r2.trace) = Len(options) + 1
                        /\ \A k \in 1..Len(options) :
                                Shape(r2.trace[k]) = <<"enter", options[k], "">>
                        /\ Shape(r2.trace[Len(r2.trace)]) = <<"handler", 0, own>>
                        /\ r2.idx = Len(options)
                /\ (Responded(r2) /\ r2.found /\ r2.once) =>
                        r2.resp = Response(OK, "", "result of " \o own)]_vars

C20_Witness ==
    /\ \A c \in {1, 2} :
            /\ calls[c].pc = "chain" /\ Top(calls[c]).kind = "handler"
            /\ ~calls[c].retried
    /\ calls[1].handler = "h1" /\ calls[2].handler = "h2"
    /\ calls[3].pc = "chain" /\ calls[3].idx = 1 /\ Top(calls[3]).kind = "icpt"

====
